---- MODULE Spec2Model ----
(***************************************************************************)
(* Issue tracker: the data-access layer (MemStorage and DatabaseStorage,   *)
(* server/storage.ts), the REST handlers (server/routes.ts) and the shared *)
(* schema.  Both realizations of IStorage are driven side by side by the   *)
(* same calls.  Records are functions from field names to values; an       *)
(* omitted field is a name outside the record's DOMAIN.  Timestamps are    *)
(* integers read from one clock; every other value is a string.            *)
(*                                                                         *)
(* SpecStorage drives the data-access calls directly while time passes.    *)
(* Spec drives the REST handlers; its requests all arrive within one       *)
(* reading of the clock.  SpecQueries drives the calls behind the          *)
(* customer's list and the dashboard's counters across a day boundary,     *)
(* SpecCalls the calls of one caller including createComment, SpecPanel    *)
(* the detail panel's comment form while time passes.  SpecDashboard       *)
(* drives the team page's table and the panel's assignee choice, SpecStats *)
(* the counters while issues resolved earlier are updated, SpecRequests    *)
(* one request to each route from its arrival to its answer with the       *)
(* database calls free to throw (SpecRequestsFair adds that an accepted    *)
(* request is served), and SpecRace PATCH requests on their way together.  *)
(***************************************************************************)
EXTENDS Integers, Sequences, FiniteSets, TLC

VARIABLES memIssues, memComments, dbIssues, dbComments, clock, issueSeq,
          commentSeq, inflight, last

vars == <<memIssues, memComments, dbIssues, dbComments, clock, issueSeq,
          commentSeq, inflight, last>>

(* ------------------------------ bounds --------------------------------- *)
MaxIssues == 2
MaxComments == 1
MaxNotes == 3
MaxClock == 2
\* the clock readings one calendar day spans
DayLength == 2
\* PATCH requests followed together from arrival to answer
MaxPatches == 2

(* ------------------------- values and records -------------------------- *)
Undefined == "<undefined>"
Null == "<null>"

\* JavaScript truthiness of the string-or-absent values used with `||`.
Falsy(v) == v \in {Undefined, Null, ""}

\* r.f, undefined when the key is absent
Get(r, f) == IF f \in DOMAIN r THEN r[f] ELSE Undefined

\* a || b
OrElse(a, b) == IF Falsy(a) THEN b ELSE a

\* { ...a, ...b }: the keys of both, b's value where both have the key
Spread(a, b) == [f \in (DOMAIN a) \cup (DOMAIN b) |-> IF f \in DOMAIN b THEN b[f] ELSE a[f]]

\* the record r without the keys outside ks
Pick(r, ks) == [f \in (DOMAIN r) \cap ks |-> r[f]]

\* pgTable("issues") and pgTable("comments"): columns, NOT NULL columns
IssueColumns == {"id", "title", "description", "customerName", "customerEmail",
                 "priority", "status", "assignedTo", "createdAt", "updatedAt"}
IssueNotNull == IssueColumns \ {"assignedTo"}
CommentColumns == {"id", "issueId", "author", "content", "isInternal", "createdAt"}
CommentNotNull == CommentColumns

\* the values the schema comments name for priority and status
Priorities == {"low", "medium", "high", "urgent"}
Statuses == {"open", "in-progress", "resolved"}

\* columns whose values are numbers here (identifiers, timestamps); they are never null
NumberColumns == {"id", "issueId", "createdAt", "updatedAt"}

\* a NOT NULL column of the row holds null
NullIn(row, notNull) == \E c \in notNull \ NumberColumns : row[c] = Null

\* what a data-access call gives back: a value, undefined, or an exception
Ok(v) == [kind |-> "ok", value |-> v]
Absent == [kind |-> "undefined"]
Thrown == [kind |-> "throw"]

(* ------------------------- arrays and sorting -------------------------- *)
\* Array.from(map.values()): the values in insertion order.  Keys are handed
\* out in increasing order and Map.set on an existing key keeps its place,
\* so insertion order is ascending key order.
RECURSIVE KeysAscending(_)
KeysAscending(ks) ==
  IF ks = {} THEN <<>>
  ELSE LET k == CHOOSE x \in ks : \A y \in ks : x <= y
       IN <<k>> \o KeysAscending(ks \ {k})

MapValues(m) == LET ks == KeysAscending(DOMAIN m) IN [i \in 1..Len(ks) |-> m[ks[i]]]

\* the comparator with its operands exchanged
NewestFirst_Swapped(a, b) == a.createdAt - b.createdAt

\* (a, b) => new Date(b.createdAt).getTime() - new Date(a.createdAt).getTime()
\* (getTime() of a timestamp is the integer that stands for it)
NewestFirst(a, b) == b.createdAt - a.createdAt

\* the comparator of the comments with its operands exchanged
OldestFirst_Swapped(a, b) == b.createdAt - a.createdAt

\* (a, b) => new Date(a.createdAt).getTime() - new Date(b.createdAt).getTime()
OldestFirst(a, b) == a.createdAt - b.createdAt

\* the comparator a sort or an ORDER BY is given: desc or asc on createdAt
Compare(order, a, b) == IF order = "desc" THEN NewestFirst(a, b) ELSE OldestFirst(a, b)

\* Array.prototype.sort(cmp) is stable: x goes after every element that
\* does not compare greater than it.
InsertSorted(sorted, x, order) ==
  LET n == Cardinality({i \in 1..Len(sorted) : Compare(order, sorted[i], x) <= 0})
  IN SubSeq(sorted, 1, n) \o <<x>> \o SubSeq(sorted, n + 1, Len(sorted))

ArraySort(s, order) ==
  LET F[i \in 0..Len(s)] == IF i = 0 THEN <<>> ELSE InsertSorted(F[i - 1], s[i], order)
  IN F[Len(s)]

(* ------------------------------- days ---------------------------------- *)
\* the start of the day with no lower bound on what counts as today
StartOfDay_Epoch(now) == 0

\* today.setHours(0, 0, 0, 0) on new Date(): the local midnight that begins
\* the day of `now`
StartOfDay(now) == now - (now % DayLength)

(* ----------------------------- MemStorage ------------------------------ *)
MemGetAllIssues(issues) == ArraySort(MapValues(issues), "desc")

\* a lookup that answers with the issue stored last, whatever the id
MemGetIssue_Latest(issues, id) ==
  IF issues = <<>> THEN Absent
  ELSE Ok(issues[CHOOSE k \in DOMAIN issues : \A j \in DOMAIN issues : k >= j])

MemGetIssue(issues, id) == IF id \in DOMAIN issues THEN Ok(issues[id]) ELSE Absent

\* the filter comparing the addresses without regard to case
MemGetIssuesByCustomerEmail_Folded(issues, email) ==
  ArraySort(SelectSeq(MapValues(issues),
                      LAMBDA issue : \/ issue.customerEmail = email
                                     \/ {issue.customerEmail, email} = {"a@x", "A@x"}),
            "desc")

MemGetIssuesByCustomerEmail(issues, email) ==
  ArraySort(SelectSeq(MapValues(issues), LAMBDA issue : issue.customerEmail = email),
            "desc")

\* createIssue with another default priority
MemCreateIssue_LowPriority(insertIssue, id, now) ==
  Spread(insertIssue,
         [status |-> OrElse(Get(insertIssue, "status"), "open"),
          priority |-> OrElse(Get(insertIssue, "priority"), "low"),
          assignedTo |-> OrElse(Get(insertIssue, "assignedTo"), Null),
          id |-> id, createdAt |-> now, updatedAt |-> now])

\* the record createIssue builds, stores under id and returns
MemCreateIssue(insertIssue, id, now) ==
  Spread(insertIssue,
         [status |-> OrElse(Get(insertIssue, "status"), "open"),
          priority |-> OrElse(Get(insertIssue, "priority"), "medium"),
          assignedTo |-> OrElse(Get(insertIssue, "assignedTo"), Null),
          id |-> id, createdAt |-> now, updatedAt |-> now])

\* the merge with the updates spread after the new updatedAt
MemMergeIssue_UpdatesLast(issue, updates, now) ==
  Spread(Spread(issue, [updatedAt |-> now]), updates)

\* the merge with the stored record spread after the updates
MemMergeIssue_IssueWins(issue, updates, now) ==
  Spread(Spread(updates, issue), [updatedAt |-> now])

\* the record updateIssue builds from the stored one
MemMergeIssue(issue, updates, now) == Spread(Spread(issue, updates), [updatedAt |-> now])

\* updateIssue without the early return for an unknown id
\* the merged record returned without this.issues.set
MemUpdateIssue_Unstored(issues, id, updates, now) ==
  IF id \notin DOMAIN issues
  THEN [issues |-> issues, result |-> Absent]
  ELSE [issues |-> issues, result |-> Ok(MemMergeIssue(issues[id], updates, now))]

MemUpdateIssue_Upsert(issues, id, updates, now) ==
  LET issue == IF id \in DOMAIN issues THEN issues[id] ELSE <<>>
      updatedIssue == Spread(Spread(issue, updates), [updatedAt |-> now])
  IN [issues |-> [k \in (DOMAIN issues) \cup {id} |-> IF k = id THEN updatedIssue ELSE issues[k]],
      result |-> Ok(updatedIssue)]

\* updateIssue: [issues |-> the map afterwards, result |-> what it returns]
MemUpdateIssue(issues, id, updates, now) ==
  IF id \notin DOMAIN issues
  THEN [issues |-> issues, result |-> Absent]
  ELSE LET updatedIssue == MemMergeIssue(issues[id], updates, now)
       IN [issues |-> [issues EXCEPT ![id] = updatedIssue], result |-> Ok(updatedIssue)]

MemGetCommentsByIssueId(comments, issueId) ==
  ArraySort(SelectSeq(MapValues(comments), LAMBDA comment : comment.issueId = issueId),
            "asc")

MemCreateComment_Internal(insertComment, id, now) ==
  Spread(insertComment,
         [isInternal |-> OrElse(Get(insertComment, "isInternal"), "true"),
          id |-> id, createdAt |-> now])

MemCreateComment(insertComment, id, now) ==
  Spread(insertComment,
         [isInternal |-> OrElse(Get(insertComment, "isInternal"), "false"),
          id |-> id, createdAt |-> now])

\* getIssueStats at the time `now`
\* resolvedToday taken from the day of creation
MemGetIssueStats_ByCreation(issues, now) ==
  LET all == MapValues(issues)
      today == StartOfDay(now)
  IN [openIssues |-> Len(SelectSeq(all, LAMBDA issue : issue.status = "open")),
      inProgress |-> Len(SelectSeq(all, LAMBDA issue : issue.status = "in-progress")),
      resolvedToday |-> Len(SelectSeq(all, LAMBDA issue : /\ issue.status = "resolved"
                                                          /\ issue.createdAt >= today)),
      urgent |-> Len(SelectSeq(all, LAMBDA issue : issue.priority = "urgent"))]

MemGetIssueStats(issues, now) ==
  LET all == MapValues(issues)
      today == StartOfDay(now)
  IN [openIssues |-> Len(SelectSeq(all, LAMBDA issue : issue.status = "open")),
      inProgress |-> Len(SelectSeq(all, LAMBDA issue : issue.status = "in-progress")),
      resolvedToday |-> Len(SelectSeq(all, LAMBDA issue : /\ issue.status = "resolved"
                                                          /\ issue.updatedAt >= today)),
      urgent |-> Len(SelectSeq(all, LAMBDA issue : issue.priority = "urgent"))]

\* map.set(id, record) for a new key
MapSet(m, id, rec) == [k \in (DOMAIN m) \cup {id} |-> IF k = id THEN rec ELSE m[k]]

(* --------------------------- DatabaseStorage --------------------------- *)
\* A statement either returns rows or throws; a throw changes nothing.

\* column defaults of the issues and comments tables
IssueDefaults(id, now) ==
  [id |-> id, priority |-> "medium", status |-> "open", assignedTo |-> Null,
   createdAt |-> now, updatedAt |-> now,
   title |-> Null, description |-> Null, customerName |-> Null, customerEmail |-> Null]


CommentDefaults(id, now) ==
  [id |-> id, isInternal |-> "false", createdAt |-> now,
   issueId |-> Null, author |-> Null, content |-> Null]

\* db.insert(issues).values(issueData).returning()
DbCreateIssue(rows, insertIssue, id, now) ==
  LET issueData == Spread(insertIssue,
                     [status |-> OrElse(Get(insertIssue, "status"), "open"),
                      priority |-> OrElse(Get(insertIssue, "priority"), "medium"),
                      assignedTo |-> OrElse(Get(insertIssue, "assignedTo"), Null)])
      row == Spread(IssueDefaults(id, now), Pick(issueData, IssueColumns))
  IN IF NullIn(row, IssueNotNull) \/ row.id \in DOMAIN rows THEN Thrown ELSE Ok(row)

\* db.update(issues).set({...updates, updatedAt: new Date()}).where(id = id).returning()
\* [issues |-> the table afterwards, result |-> what it returns]
DbUpdateIssue(rows, comments, id, updates, now) ==
  IF id \notin DOMAIN rows
  THEN [issues |-> rows, result |-> Absent]
  ELSE LET set == Pick(Spread(updates, [updatedAt |-> now]), IssueColumns)
           row == Spread(rows[id], set)
           moved == row.id # id
           violates == \/ NullIn(row, IssueNotNull)
                       \/ moved /\ row.id \in DOMAIN rows
                       \/ moved /\ \E c \in DOMAIN comments : comments[c].issueId = id
       IN IF violates THEN [issues |-> rows, result |-> Thrown]
          ELSE [issues |-> [k \in ((DOMAIN rows) \ {id}) \cup {row.id} |->
                              IF k = row.id THEN row ELSE rows[k]],
                result |-> Ok(row)]

DbGetIssue(rows, id) == IF id \in DOMAIN rows THEN Ok(rows[id]) ELSE Absent

\* db.insert(comments).values(commentData).returning()
\* (issue_id references issues.id)
DbCreateComment(rows, issues, insertComment, id, now) ==
  LET commentData == Spread(insertComment,
                       [isInternal |-> OrElse(Get(insertComment, "isInternal"), "false")])
      row == Spread(CommentDefaults(id, now), Pick(commentData, CommentColumns))
  IN IF NullIn(row, CommentNotNull) \/ row.id \in DOMAIN rows
        \/ row.issueId \notin DOMAIN issues
     THEN Thrown ELSE Ok(row)

\* ORDER BY created_at: every order of the rows the comparator admits
\* (the order of rows with equal keys is not specified)
Perms(S) == {p \in [1..Cardinality(S) -> S] : \A i, j \in 1..Cardinality(S) : i # j => p[i] # p[j]}
OrderBy(S, order) ==
  {p \in Perms(S) : \A i \in 1..(Cardinality(S) - 1) : Compare(order, p[i], p[i + 1]) <= 0}

DbGetAllIssues(rows) == OrderBy({rows[k] : k \in DOMAIN rows}, "desc")

DbGetIssuesByCustomerEmail(rows, email) ==
  OrderBy({rows[k] : k \in {x \in DOMAIN rows : rows[x].customerEmail = email}}, "desc")

DbGetCommentsByIssueId(rows, issueId) ==
  OrderBy({rows[k] : k \in {x \in DOMAIN rows : rows[x].issueId = issueId}}, "asc")

\* getIssueStats: the same filters over the rows of `select from issues`,
\* whose order does not bear on a count
DbGetIssueStats(rows, now) ==
  LET today == StartOfDay(now)
  IN [openIssues |-> Cardinality({k \in DOMAIN rows : rows[k].status = "open"}),
      inProgress |-> Cardinality({k \in DOMAIN rows : rows[k].status = "in-progress"}),
      resolvedToday |-> Cardinality({k \in DOMAIN rows : /\ rows[k].status = "resolved"
                                                         /\ rows[k].updatedAt >= today}),
      urgent |-> Cardinality({k \in DOMAIN rows : rows[k].priority = "urgent"})]

(* ------------------------------ schema --------------------------------- *)
\* insertIssueSchema / insertCommentSchema: createInsertSchema(table).omit(...)
\* A NOT NULL column without default is a required string, one with a
\* default an optional string, a nullable column optional and nullable;
\* parse() drops the keys the schema does not name.
InsertIssueRequired == {"title", "description", "customerName", "customerEmail"}
InsertIssueOptional == {"priority", "status"}
InsertIssueKeys == IssueColumns \ {"id", "createdAt", "updatedAt"}
InsertCommentRequired == {"issueId", "author", "content"}
InsertCommentOptional == {"isInternal"}
InsertCommentKeys == CommentColumns \ {"id", "createdAt"}

IsString(r, f) == IF f \in NumberColumns THEN TRUE ELSE r[f] # Null

\* a schema that lets every body pass
ValidInsertIssue_Lax(body) == TRUE

\* insertIssueSchema.parse(body) does not throw
ValidInsertIssue(body) ==
  /\ \A f \in InsertIssueRequired : f \in DOMAIN body /\ IsString(body, f)
  /\ \A f \in InsertIssueOptional : f \in DOMAIN body => IsString(body, f)

\* insertCommentSchema.parse(commentData) does not throw
ValidInsertComment(commentData) ==
  /\ \A f \in InsertCommentRequired : f \in DOMAIN commentData /\ IsString(commentData, f)
  /\ \A f \in InsertCommentOptional : f \in DOMAIN commentData => IsString(commentData, f)

(* ------------------------------ inputs --------------------------------- *)
\* an id no issue is ever created with, and a time later than any clock value
\* (time 0 is earlier than any clock value)
ForeignId == MaxIssues + 1
FutureTime == MaxClock + 1

Base(email) == [title |-> "t", description |-> "d", customerName |-> "n", customerEmail |-> email]

\* request bodies of POST /api/issues: one that omits status, priority and
\* assignee, one that carries them, one without the required fields, one
\* whose title is no string
IssueBodies ==
  { Base("a@x"),
    Spread(Base("b@x"), [status |-> "resolved", priority |-> "urgent", assignedTo |-> "alice"]),
    [title |-> "t", description |-> "d"],
    Spread(Base("a@x"), [title |-> Null]) }

\* the inputs createIssue is called with
InsertIssues == {b \in IssueBodies : ValidInsertIssue(b)}

\* partial fields updateIssue is called with
StorageUpdates ==
  { <<>>,
    [status |-> "in-progress", assignedTo |-> "bob"],
    [createdAt |-> FutureTime, updatedAt |-> 0] }

\* request bodies of PATCH /api/issues/:id
PatchBodies ==
  { [status |-> "closed", priority |-> "p0"],
    [id |-> ForeignId] }

\* the ids requests name
RequestIds == 1..MaxIssues

\* request bodies of POST /api/issues/:id/comments
CommentBodies ==
  { [author |-> "customer", content |-> "c", issueId |-> ForeignId],
    [author |-> "customer"] }

(* --------------------------- state machine ----------------------------- *)
NoOp == [op |-> "init"]

Init ==
  /\ memIssues = <<>> /\ memComments = <<>>
  /\ dbIssues = <<>> /\ dbComments = <<>>
  /\ clock = 1 /\ issueSeq = 0 /\ commentSeq = 0
  /\ inflight = {}
  /\ last = NoOp

\* time passes between two calls
Tick ==
  /\ clock < MaxClock
  /\ clock' = clock + 1
  /\ last' = [op |-> "tick"]
  /\ UNCHANGED <<memIssues, memComments, dbIssues, dbComments, issueSeq, commentSeq, inflight>>

\* storage.createIssue(insertIssue) on both realizations
CreateIssue(insertIssue) ==
  /\ issueSeq < MaxIssues
  /\ LET id == issueSeq + 1
         m == MemCreateIssue(insertIssue, id, clock)
         d == DbCreateIssue(dbIssues, insertIssue, id, clock)
     IN /\ memIssues' = MapSet(memIssues, id, m)
        /\ dbIssues' = IF d.kind = "ok" THEN MapSet(dbIssues, d.value.id, d.value) ELSE dbIssues
        /\ last' = [op |-> "createIssue", id |-> id, arg |-> insertIssue,
                    mem |-> Ok(m), db |-> d]
  /\ issueSeq' = issueSeq + 1
  /\ UNCHANGED <<memComments, dbComments, clock, commentSeq, inflight>>

\* storage.updateIssue(id, updates) on both realizations
UpdateIssue(id, updates) ==
  /\ LET m == MemUpdateIssue(memIssues, id, updates, clock)
         d == DbUpdateIssue(dbIssues, dbComments, id, updates, clock)
     IN /\ memIssues' = m.issues
        /\ dbIssues' = d.issues
        /\ last' = [op |-> "updateIssue", id |-> id, arg |-> updates,
                    mem |-> m.result, db |-> d.result]
  /\ UNCHANGED <<memComments, dbComments, clock, issueSeq, commentSeq, inflight>>

NextStorage ==
  \/ Tick
  \/ \E insertIssue \in InsertIssues : CreateIssue(insertIssue)
  \/ \E id \in RequestIds, updates \in StorageUpdates : UpdateIssue(id, updates)

SpecStorage == Init /\ [][NextStorage]_vars

\* the calls behind the customer's list and the dashboard's counters: issues
\* of two customers whose addresses differ in case only, one urgent and
\* open, one resolved, and the status changes the team makes
QueryIssues ==
  { Spread(Base("a@x"), [priority |-> "urgent"]),
    Spread(Base("A@x"), [status |-> "resolved"]) }

QueryUpdates == { [status |-> "in-progress"], [status |-> "resolved"] }

\* the addresses getIssuesByCustomerEmail is asked for
Emails == {"a@x", "A@x", "c@x"}

NextQueries ==
  \/ Tick
  \/ \E insertIssue \in QueryIssues : CreateIssue(insertIssue)
  \/ \E id \in RequestIds, updates \in QueryUpdates : UpdateIssue(id, updates)

SpecQueries == Init /\ [][NextQueries]_vars

\* storage.createComment(insertComment) on both realizations
CreateComment(insertComment) ==
  /\ commentSeq < MaxComments
  /\ LET id == commentSeq + 1
         m == MemCreateComment(insertComment, id, clock)
         d == DbCreateComment(dbComments, dbIssues, insertComment, id, clock)
     IN /\ memComments' = MapSet(memComments, id, m)
        /\ dbComments' = IF d.kind = "ok" THEN MapSet(dbComments, d.value.id, d.value)
                         ELSE dbComments
        /\ last' = [op |-> "createComment", id |-> id, arg |-> insertComment,
                    mem |-> Ok(m), db |-> d]
  /\ commentSeq' = commentSeq + 1
  /\ UNCHANGED <<memIssues, dbIssues, clock, issueSeq, inflight>>

\* the calls one caller makes of either realization: createIssue with the
\* optional fields omitted or empty, updateIssue with an id or with a status
\* and a createdAt, createComment for an issue id
CallIssues ==
  { Base("a@x"),
    Spread(Base("a@x"), [status |-> "", priority |-> "high", assignedTo |-> ""]) }

CallUpdates == { [id |-> ForeignId], [status |-> "resolved", createdAt |-> FutureTime] }

CallComments == { [issueId |-> id, author |-> "customer", content |-> "c"] : id \in RequestIds }

NextCalls ==
  \/ \E insertIssue \in CallIssues : CreateIssue(insertIssue)
  \/ \E id \in RequestIds, updates \in CallUpdates : UpdateIssue(id, updates)
  \/ \E insertComment \in CallComments : CreateComment(insertComment)

SpecCalls == Init /\ [][NextCalls]_vars

\* The statistics over days: issues are created open or resolved, the
\* clock passes midnight, and stored issues get a new priority or assignee.
StatsIssues == { Base("a@x"), Spread(Base("a@x"), [status |-> "resolved"]) }

StatsUpdates == { [priority |-> "high"], [assignedTo |-> "alice"] }

NextStats ==
  \/ Tick
  \/ \E insertIssue \in StatsIssues : CreateIssue(insertIssue)
  \/ \E id \in RequestIds, updates \in StatsUpdates : UpdateIssue(id, updates)

SpecStats == Init /\ [][NextStats]_vars

(* ------------------------------- routes -------------------------------- *)
\* res.status(code).json(body)
Created(rec) == [code |-> 201, body |-> rec]
Success(rec) == [code |-> 200, body |-> rec]
BadRequest == [code |-> 400]
NotFound == [code |-> 404]
ServerError == [code |-> 500]
\* the handler is suspended at an await and has not answered yet
Pending == [code |-> 0]

\* app.post('/api/issues'): parse, createIssue, 201; an Error caught gives 400
PostIssueResponse(valid, result) ==
  IF ~valid THEN BadRequest
  ELSE IF result.kind = "throw" THEN BadRequest
  ELSE Created(result.value)

\* app.patch('/api/issues/:id'): updateIssue(id, req.body); 404 when it returns
\* undefined, 500 when it throws
PatchIssueResponse(result) ==
  IF result.kind = "throw" THEN ServerError
  ELSE IF result.kind = "undefined" THEN NotFound
  ELSE Success(result.value)

\* the comment data with the body spread after the path's id
CommentData_BodyWins(id, body) == Spread([issueId |-> id], body)

\* app.post('/api/issues/:id/comments'), after getIssue: what is validated
CommentData(id, body) == Spread(body, [issueId |-> id])

\* the handler without its existence check
IssueExists_Always(result) == TRUE

\* the existence check of app.post('/api/issues/:id/comments')
IssueExists(result) == result.kind = "ok"

PostCommentResponse(valid, result) ==
  IF ~valid THEN BadRequest
  ELSE IF result.kind = "throw" THEN BadRequest
  ELSE Created(result.value)

\* POST /api/issues
PostIssue(body) ==
  /\ issueSeq < MaxIssues
  /\ LET valid == ValidInsertIssue(body)
         validatedData == Pick(body, InsertIssueKeys)
         id == issueSeq + 1
         m == Ok(MemCreateIssue(validatedData, id, clock))
         d == DbCreateIssue(dbIssues, validatedData, id, clock)
     IN /\ memIssues' = IF valid THEN MapSet(memIssues, id, m.value) ELSE memIssues
        /\ dbIssues' = IF valid /\ d.kind = "ok" THEN MapSet(dbIssues, d.value.id, d.value)
                       ELSE dbIssues
        /\ issueSeq' = IF valid THEN issueSeq + 1 ELSE issueSeq
        /\ last' = [op |-> "postIssue", body |-> body,
                    mem |-> PostIssueResponse(valid, m), db |-> PostIssueResponse(valid, d)]
  /\ UNCHANGED <<memComments, dbComments, clock, commentSeq, inflight>>

\* PATCH /api/issues/:id
PatchIssue(id, body) ==
  /\ LET m == MemUpdateIssue(memIssues, id, body, clock)
         d == DbUpdateIssue(dbIssues, dbComments, id, body, clock)
     IN /\ memIssues' = m.issues
        /\ dbIssues' = d.issues
        /\ last' = [op |-> "patchIssue", id |-> id, body |-> body,
                    mem |-> PatchIssueResponse(m.result), db |-> PatchIssueResponse(d.result)]
  /\ UNCHANGED <<memComments, dbComments, clock, issueSeq, commentSeq, inflight>>

\* POST /api/issues/:id/comments up to `await storage.getIssue(id)`: 404, or
\* the request goes on once the lookup has returned.  One such request is
\* followed across its await while other requests are served in between; a
\* second one suspended at the same time reads the issues and appends a
\* comment, which commutes with the first one's steps.
PostCommentBegin(id, body) ==
  /\ commentSeq < MaxComments
  /\ inflight = {}
  /\ LET m == IssueExists(MemGetIssue(memIssues, id))
         d == IssueExists(DbGetIssue(dbIssues, id))
         req == [id |-> id, body |-> body, mem |-> m, db |-> d]
     IN /\ req \notin inflight
        /\ inflight' = IF m \/ d THEN inflight \cup {req} ELSE inflight
        /\ last' = [op |-> "postCommentBegin", id |-> id, body |-> body,
                    mem |-> IF m THEN Pending ELSE NotFound,
                    db |-> IF d THEN Pending ELSE NotFound]
  /\ UNCHANGED <<memIssues, memComments, dbIssues, dbComments, clock, issueSeq, commentSeq>>

\* POST /api/issues/:id/comments from the lookup's return on: parse,
\* createComment, 201; an Error caught gives 400
PostCommentFinish(req) ==
  /\ req \in inflight
  /\ inflight' = inflight \ {req}
  /\ LET commentData == CommentData(req.id, req.body)
         valid == ValidInsertComment(commentData)
         validatedData == Pick(commentData, InsertCommentKeys)
         id == commentSeq + 1
         m == Ok(MemCreateComment(validatedData, id, clock))
         d == DbCreateComment(dbComments, dbIssues, validatedData, id, clock)
     IN /\ memComments' = IF req.mem /\ valid THEN MapSet(memComments, id, m.value)
                          ELSE memComments
        /\ dbComments' = IF req.db /\ valid /\ d.kind = "ok"
                         THEN MapSet(dbComments, d.value.id, d.value) ELSE dbComments
        /\ commentSeq' = IF valid THEN commentSeq + 1 ELSE commentSeq
        /\ last' = [op |-> "postComment", id |-> req.id, body |-> req.body,
                    mem |-> IF req.mem THEN PostCommentResponse(valid, m) ELSE NotFound,
                    db |-> IF req.db THEN PostCommentResponse(valid, d) ELSE NotFound]
  /\ UNCHANGED <<memIssues, dbIssues, clock, issueSeq>>

Next ==
  \/ \E body \in IssueBodies : PostIssue(body)
  \/ \E id \in RequestIds, body \in PatchBodies : PatchIssue(id, body)
  \/ \E id \in RequestIds, body \in CommentBodies : PostCommentBegin(id, body)
  \/ \E req \in inflight : PostCommentFinish(req)

Spec == Init /\ [][Next]_vars

(* ---------------------------- detail panel ----------------------------- *)
\* what is typed into the panel's comment box
PanelTexts == {"note", " "}

\* String.prototype.trim() on those texts
Trim(s) == IF s = " " THEN "" ELSE s

\* the panel posting the text with the checkbox's state turned about
HandleAddComment_Unchecked(newComment, notifyCustomer) ==
  [author |-> "Team Member", content |-> newComment,
   isInternal |-> IF notifyCustomer THEN "true" ELSE "false"]

\* handleAddComment: the body the panel posts for the text and the
\* "notify customer" checkbox
HandleAddComment(newComment, notifyCustomer) ==
  [author |-> "Team Member", content |-> newComment,
   isInternal |-> IF notifyCustomer THEN "false" ELSE "true"]

\* POST /api/issues/:id/comments served in one step: getIssue, 404 or parse,
\* createComment, 201.  No request of SpecPanel removes or rewrites an
\* issue, so what is served between the lookup and the insert commutes
\* with them.  [the comments afterwards, the answers]
PostComment(id, body) ==
  LET mem == IssueExists(MemGetIssue(memIssues, id))
      db == IssueExists(DbGetIssue(dbIssues, id))
      commentData == CommentData(id, body)
      valid == ValidInsertComment(commentData)
      validatedData == Pick(commentData, InsertCommentKeys)
      cid == commentSeq + 1
      m == Ok(MemCreateComment(validatedData, cid, clock))
      d == DbCreateComment(dbComments, dbIssues, validatedData, cid, clock)
  IN [memComments |-> IF mem /\ valid THEN MapSet(memComments, cid, m.value)
                      ELSE memComments,
      dbComments |-> IF db /\ valid /\ d.kind = "ok"
                     THEN MapSet(dbComments, d.value.id, d.value) ELSE dbComments,
      commentSeq |-> IF (mem \/ db) /\ valid THEN commentSeq + 1 ELSE commentSeq,
      mem |-> IF mem THEN PostCommentResponse(valid, m) ELSE NotFound,
      db |-> IF db THEN PostCommentResponse(valid, d) ELSE NotFound]

\* the panel of a listed issue: "Add Comment" with a text and the checkbox,
\* up to the answer to the request it sends
AddComment(id, newComment, notifyCustomer) ==
  /\ commentSeq < MaxNotes
  /\ id \in DOMAIN memIssues \cap DOMAIN dbIssues
  /\ Trim(newComment) # ""
  /\ LET served == PostComment(id, HandleAddComment(newComment, notifyCustomer))
     IN /\ memComments' = served.memComments
        /\ dbComments' = served.dbComments
        /\ commentSeq' = served.commentSeq
        /\ last' = [op |-> "addComment", id |-> id, newComment |-> newComment,
                    notifyCustomer |-> notifyCustomer,
                    mem |-> served.mem, db |-> served.db]
  /\ UNCHANGED <<memIssues, dbIssues, clock, issueSeq, inflight>>

\* app.get('/api/issues/:id'): 404, or the issue with its comments; 500
\* when either call throws
GetIssueResponse(issue, comments) ==
  IF issue.kind = "throw" THEN ServerError
  ELSE IF issue.kind = "undefined" THEN NotFound
  ELSE IF comments.kind = "throw" THEN ServerError
  ELSE Success(Spread(issue.value, [comments |-> comments.value]))

\* app.get('/api/issues'), app.get('/api/issues/customer/:email') and
\* app.get('/api/stats'): what the call returned, or 500 when it throws
GetIssuesResponse(issues) ==
  IF issues.kind = "throw" THEN ServerError ELSE Success(issues.value)

GetCustomerIssuesResponse(issues) ==
  IF issues.kind = "throw" THEN ServerError ELSE Success(issues.value)

\* a throw of getIssueStats answered as a missing resource
GetStatsResponse_NotFound(stats) ==
  IF stats.kind = "throw" THEN NotFound ELSE Success(stats.value)

\* app.get('/api/stats')
GetStatsResponse(stats) ==
  IF stats.kind = "throw" THEN ServerError ELSE Success(stats.value)

NextPanel ==
  \/ Tick
  \/ PostIssue(Base("a@x"))
  \/ \E id \in RequestIds, newComment \in PanelTexts, notifyCustomer \in BOOLEAN :
       AddComment(id, newComment, notifyCustomer)

SpecPanel == Init /\ [][NextPanel]_vars

(* ----------------------------- dashboard ------------------------------ *)
\* the characters of the strings the table's search reads
Chars ==
  ("" :> <<>>) @@ ("t" :> <<"t">>) @@ ("d" :> <<"d">>) @@ ("n" :> <<"n">>)
  @@ ("a@x" :> <<"a", "@", "x">>) @@ ("A@x" :> <<"A", "@", "x">>)
  @@ ("b@x" :> <<"b", "@", "x">>) @@ ("A@" :> <<"A", "@">>)

\* String.prototype.toLowerCase() on a string's characters
ToLowerCase(chars) ==
  [i \in DOMAIN chars |-> IF chars[i] = "A" THEN "a" ELSE chars[i]]

\* String.prototype.includes(): the term occurs somewhere in the text
Includes(text, term) ==
  \E i \in 0..(Len(text) - Len(term)) : SubSeq(text, i + 1, i + Len(term)) = term

\* issue.<field>.toLowerCase().includes(searchTerm.toLowerCase()) for one of
\* the four fields
MatchesSearch(issue, searchTerm) ==
  \/ Includes(ToLowerCase(Chars[issue.title]), ToLowerCase(Chars[searchTerm]))
  \/ Includes(ToLowerCase(Chars[issue.description]), ToLowerCase(Chars[searchTerm]))
  \/ Includes(ToLowerCase(Chars[issue.customerName]), ToLowerCase(Chars[searchTerm]))
  \/ Includes(ToLowerCase(Chars[issue.customerEmail]), ToLowerCase(Chars[searchTerm]))

\* the table without the step that sets the resolved issues aside
ActiveIssues_All(issues) == issues

\* activeIssues: the fetched issues that are not resolved
ActiveIssues(issues) == SelectSeq(issues, LAMBDA issue : issue.status # "resolved")

\* filteredIssues of the team page
FilteredIssues(issues, searchTerm, statusFilter, priorityFilter) ==
  SelectSeq(ActiveIssues(issues),
            LAMBDA issue :
              /\ MatchesSearch(issue, searchTerm)
              /\ (statusFilter = "" \/ statusFilter = "all" \/ issue.status = statusFilter)
              /\ (priorityFilter = "" \/ priorityFilter = "all"
                  \/ issue.priority = priorityFilter))

\* the issues the store holds while the team page is open
DashboardIssues ==
  QueryIssues \cup { Spread(Base("b@x"), [status |-> "in-progress"]) }

\* what the search box and the two filters are set to
SearchTerms == {"", "A@"}
StatusFilters == {"all", "open", "resolved"}
PriorityFilters == {"all", "urgent"}

\* the team page renders its table from the issues GET /api/issues returned
ShowTable(searchTerm, statusFilter, priorityFilter) ==
  /\ \E issues \in {MemGetAllIssues(memIssues)} \cup DbGetAllIssues(dbIssues) :
       last' = [op |-> "showTable", issues |-> issues, searchTerm |-> searchTerm,
                statusFilter |-> statusFilter, priorityFilter |-> priorityFilter,
                table |-> FilteredIssues(issues, searchTerm, statusFilter, priorityFilter)]
  /\ UNCHANGED <<memIssues, memComments, dbIssues, dbComments, clock, issueSeq,
                 commentSeq, inflight>>

\* the assignees the panel offers beside "Unassigned"
Assignees == {"unassigned", "Shaurya Raj"}

\* handleAssigneeChange: the updates the panel hands to the mutation
HandleAssigneeChange(assignedTo) ==
  [assignedTo |-> IF assignedTo = "unassigned" THEN Undefined ELSE assignedTo]

\* JSON.stringify of the request's data: a key whose value is undefined is
\* left out
JsonStringify(data) == [f \in {k \in DOMAIN data : data[k] # Undefined} |-> data[f]]

\* the panel of a listed issue: an assignee is selected, up to the answer
\* to the PATCH it sends
ChangeAssignee(id, assignedTo) ==
  /\ id \in DOMAIN memIssues \cap DOMAIN dbIssues
  /\ LET body == JsonStringify(HandleAssigneeChange(assignedTo))
         m == MemUpdateIssue(memIssues, id, body, clock)
         d == DbUpdateIssue(dbIssues, dbComments, id, body, clock)
     IN /\ memIssues' = m.issues
        /\ dbIssues' = d.issues
        /\ last' = [op |-> "changeAssignee", id |-> id, assignedTo |-> assignedTo,
                    body |-> body,
                    mem |-> PatchIssueResponse(m.result),
                    db |-> PatchIssueResponse(d.result)]
  /\ UNCHANGED <<memComments, dbComments, clock, issueSeq, commentSeq, inflight>>

NextDashboard ==
  \/ \E insertIssue \in DashboardIssues : CreateIssue(insertIssue)
  \/ \E searchTerm \in SearchTerms, statusFilter \in StatusFilters,
        priorityFilter \in PriorityFilters :
       ShowTable(searchTerm, statusFilter, priorityFilter)
  \/ \E id \in RequestIds, assignedTo \in Assignees : ChangeAssignee(id, assignedTo)

SpecDashboard == Init /\ [][NextDashboard]_vars

(* ------------------------------ requests ------------------------------- *)
\* One request at a time is followed from its arrival to its answer, with
\* the data-access calls it makes; a call of DatabaseStorage may throw
\* (the database is unreachable), a call of MemStorage does not.

Endpoint(name, body) == [endpoint |-> name, id |-> 1, email |-> "a@x", body |-> body]

\* the requests sent: every endpoint, the POSTs with a body that passes
\* validation and with one that does not
Requests ==
  { Endpoint(name, <<>>) : name \in {"GET /api/issues", "GET /api/issues/customer/:email",
                                       "GET /api/issues/:id", "GET /api/stats"} }
  \cup { Endpoint("POST /api/issues", body) :
           body \in {Base("a@x"), [title |-> "t", description |-> "d"]} }
  \cup { Endpoint("PATCH /api/issues/:id", [status |-> "resolved"]) }
  \cup { Endpoint("POST /api/issues/:id/comments", body) : body \in CommentBodies }

\* which of a request's data-access calls throws: none, the first, the second
Failings == 0..2

\* what the call gives back when it is the one that throws
Outcome(result, failing, call) == IF failing = call THEN Thrown ELSE result

\* the data-access calls each handler makes
GetIssueCalls_One(issue) == <<"getIssue">>

GetIssueCalls(issue) ==
  IF issue.kind = "ok" THEN <<"getIssue", "getCommentsByIssueId">> ELSE <<"getIssue">>

PostIssueCalls(valid) == IF valid THEN <<"createIssue">> ELSE <<>>

PostCommentCalls(issue, valid) ==
  IF issue.kind = "ok" /\ valid THEN <<"getIssue", "createComment">> ELSE <<"getIssue">>

\* the comment handler with the body parsed before the issue is looked up
PostCommentAnswer_ParseFirst(issue, valid, result) ==
  IF ~valid \/ issue.kind = "throw" THEN BadRequest
  ELSE IF ~IssueExists(issue) THEN NotFound
  ELSE PostCommentResponse(valid, result)

\* app.post('/api/issues/:id/comments'): an Error thrown by getIssue gives
\* 400, an absent issue 404, and then as PostCommentResponse
PostCommentAnswer(issue, valid, result) ==
  IF issue.kind = "throw" THEN BadRequest
  ELSE IF ~IssueExists(issue) THEN NotFound
  ELSE PostCommentResponse(valid, result)

\* a request arrives
Receive(req) ==
  /\ inflight = {}
  /\ req.endpoint = "POST /api/issues" => issueSeq < MaxIssues
  /\ req.endpoint = "POST /api/issues/:id/comments" => commentSeq < MaxComments
  /\ inflight' = {req}
  /\ UNCHANGED <<memIssues, memComments, dbIssues, dbComments, clock, issueSeq,
                 commentSeq, last>>

\* res.json(...): the request is answered and is no longer in flight
Respond(req, failing, mem, db, memCalls, dbCalls) ==
  /\ inflight' = inflight \ {req}
  /\ last' = [op |-> "respond", endpoint |-> req.endpoint, request |-> req,
              failing |-> failing, mem |-> mem, db |-> db,
              memCalls |-> memCalls, dbCalls |-> dbCalls]

\* app.get('/api/issues')
ServeGetIssues(req, failing) ==
  /\ req \in inflight /\ req.endpoint = "GET /api/issues"
  /\ \E rows \in DbGetAllIssues(dbIssues) :
       Respond(req, failing,
               GetIssuesResponse(Ok(MemGetAllIssues(memIssues))),
               GetIssuesResponse(Outcome(Ok(rows), failing, 1)),
               <<"getAllIssues">>, <<"getAllIssues">>)
  /\ UNCHANGED <<memIssues, memComments, dbIssues, dbComments, clock, issueSeq, commentSeq>>

\* app.get('/api/issues/customer/:email')
ServeGetCustomerIssues(req, failing) ==
  /\ req \in inflight /\ req.endpoint = "GET /api/issues/customer/:email"
  /\ \E rows \in DbGetIssuesByCustomerEmail(dbIssues, req.email) :
       Respond(req, failing,
               GetCustomerIssuesResponse(Ok(MemGetIssuesByCustomerEmail(memIssues, req.email))),
               GetCustomerIssuesResponse(Outcome(Ok(rows), failing, 1)),
               <<"getIssuesByCustomerEmail">>, <<"getIssuesByCustomerEmail">>)
  /\ UNCHANGED <<memIssues, memComments, dbIssues, dbComments, clock, issueSeq, commentSeq>>

\* app.get('/api/issues/:id'): getCommentsByIssueId is called once getIssue
\* has returned an issue
ServeGetIssue(req, failing) ==
  /\ req \in inflight /\ req.endpoint = "GET /api/issues/:id"
  /\ \E rows \in DbGetCommentsByIssueId(dbComments, req.id) :
       LET m == MemGetIssue(memIssues, req.id)
           d == Outcome(DbGetIssue(dbIssues, req.id), failing, 1)
       IN Respond(req, failing,
                  GetIssueResponse(m, Ok(MemGetCommentsByIssueId(memComments, req.id))),
                  GetIssueResponse(d, Outcome(Ok(rows), failing, 2)),
                  GetIssueCalls(m), GetIssueCalls(d))
  /\ UNCHANGED <<memIssues, memComments, dbIssues, dbComments, clock, issueSeq, commentSeq>>

\* app.post('/api/issues'): createIssue is called once the body has parsed
ServePostIssue(req, failing) ==
  /\ req \in inflight /\ req.endpoint = "POST /api/issues"
  /\ LET valid == ValidInsertIssue(req.body)
         validatedData == Pick(req.body, InsertIssueKeys)
         calls == PostIssueCalls(valid)
         called == calls # <<>>
         id == issueSeq + 1
         m == Ok(MemCreateIssue(validatedData, id, clock))
         d == Outcome(DbCreateIssue(dbIssues, validatedData, id, clock), failing, 1)
     IN /\ memIssues' = IF called THEN MapSet(memIssues, id, m.value) ELSE memIssues
        /\ dbIssues' = IF called /\ d.kind = "ok" THEN MapSet(dbIssues, d.value.id, d.value)
                       ELSE dbIssues
        /\ issueSeq' = IF called THEN issueSeq + 1 ELSE issueSeq
        /\ Respond(req, failing, PostIssueResponse(valid, m), PostIssueResponse(valid, d),
                   calls, calls)
  /\ UNCHANGED <<memComments, dbComments, clock, commentSeq>>

\* app.patch('/api/issues/:id')
ServePatchIssue(req, failing) ==
  /\ req \in inflight /\ req.endpoint = "PATCH /api/issues/:id"
  /\ LET m == MemUpdateIssue(memIssues, req.id, req.body, clock)
         d == IF failing = 1 THEN [issues |-> dbIssues, result |-> Thrown]
              ELSE DbUpdateIssue(dbIssues, dbComments, req.id, req.body, clock)
     IN /\ memIssues' = m.issues
        /\ dbIssues' = d.issues
        /\ Respond(req, failing, PatchIssueResponse(m.result), PatchIssueResponse(d.result),
                   <<"updateIssue">>, <<"updateIssue">>)
  /\ UNCHANGED <<memComments, dbComments, clock, issueSeq, commentSeq>>

\* app.post('/api/issues/:id/comments'): getIssue, then the body is parsed,
\* then createComment
ServePostComment(req, failing) ==
  /\ req \in inflight /\ req.endpoint = "POST /api/issues/:id/comments"
  /\ LET commentData == CommentData(req.id, req.body)
         valid == ValidInsertComment(commentData)
         validatedData == Pick(commentData, InsertCommentKeys)
         memIssue == MemGetIssue(memIssues, req.id)
         dbIssue == Outcome(DbGetIssue(dbIssues, req.id), failing, 1)
         memCalls == PostCommentCalls(memIssue, valid)
         dbCalls == PostCommentCalls(dbIssue, valid)
         cid == commentSeq + 1
         m == Ok(MemCreateComment(validatedData, cid, clock))
         d == Outcome(DbCreateComment(dbComments, dbIssues, validatedData, cid, clock),
                      failing, 2)
     IN /\ memComments' = IF Len(memCalls) = 2 THEN MapSet(memComments, cid, m.value)
                          ELSE memComments
        /\ dbComments' = IF Len(dbCalls) = 2 /\ d.kind = "ok"
                         THEN MapSet(dbComments, d.value.id, d.value) ELSE dbComments
        /\ commentSeq' = IF Len(memCalls) = 2 \/ Len(dbCalls) = 2 THEN commentSeq + 1
                         ELSE commentSeq
        /\ Respond(req, failing, PostCommentAnswer(memIssue, valid, m),
                   PostCommentAnswer(dbIssue, valid, d), memCalls, dbCalls)
  /\ UNCHANGED <<memIssues, dbIssues, clock, issueSeq>>

\* app.get('/api/stats')
ServeGetStats(req, failing) ==
  /\ req \in inflight /\ req.endpoint = "GET /api/stats"
  /\ Respond(req, failing,
             GetStatsResponse(Ok(MemGetIssueStats(memIssues, clock))),
             GetStatsResponse(Outcome(Ok(DbGetIssueStats(dbIssues, clock)), failing, 1)),
             <<"getIssueStats">>, <<"getIssueStats">>)
  /\ UNCHANGED <<memIssues, memComments, dbIssues, dbComments, clock, issueSeq, commentSeq>>

\* the handler of the request in flight runs to its answer
Serve ==
  \/ \E req \in inflight, failing \in Failings : ServeGetIssues(req, failing)
  \/ \E req \in inflight, failing \in Failings : ServeGetCustomerIssues(req, failing)
  \/ \E req \in inflight, failing \in Failings : ServeGetIssue(req, failing)
  \/ \E req \in inflight, failing \in Failings : ServePostIssue(req, failing)
  \/ \E req \in inflight, failing \in Failings : ServePatchIssue(req, failing)
  \/ \E req \in inflight, failing \in Failings : ServePostComment(req, failing)
  \/ \E req \in inflight, failing \in Failings : ServeGetStats(req, failing)

NextRequests ==
  \/ \E req \in Requests : Receive(req)
  \/ Serve

SpecRequests == Init /\ [][NextRequests]_vars

\* the step that answers the request in flight: by NextRequests a Serve
\* step, and one is possible whenever a request is in flight
Settle == inflight # {} /\ inflight' = {}

\* Express runs the handler of every request it has accepted, and each
\* await of a handler settles (the call returns or throws): an accepted
\* request is not left waiting for ever
SpecRequestsFair == SpecRequests /\ WF_inflight(Settle)

(* ------------------------- concurrent updates -------------------------- *)
\* PATCH requests on their way together: each arrives, its handler calls
\* updateIssue, and it is answered once the awaited call has returned.
\* Handlers of other requests run between the three steps and never inside
\* one: the body of updateIssue has no await.
RaceUpdates == { [status |-> "in-progress"], [status |-> "resolved"], [priority |-> "high"] }

\* the issue the requests are for
RaceId == 1

\* the calls applied and the requests answered, in order
Applied == IF last.op = "patches" THEN last.applied ELSE <<>>
Answered == IF last.op = "patches" THEN last.answered ELSE <<>>

\* the map read when the request arrived, in place of the map at the call
IssuesAtCall_AtArrival(current, atArrival) == atArrival

\* this.issues.get(id) inside updateIssue: the map as it is when the body
\* of the call runs
IssuesAtCall(current, atArrival) == current

\* a PATCH request arrives while others may be on their way; n numbers
\* the requests in the order of arrival
SendPatch(id, body) ==
  /\ Cardinality(inflight) + Len(Answered) < MaxPatches
  /\ inflight' = inflight \cup {[n |-> Cardinality(inflight) + Len(Answered) + 1,
                                 id |-> id, body |-> body, stage |-> "sent",
                                 atArrival |-> memIssues, mem |-> Pending, db |-> Pending]}
  /\ UNCHANGED <<memIssues, memComments, dbIssues, dbComments, clock, issueSeq,
                 commentSeq, last>>

\* the handler runs up to its await: updateIssue reads, merges and writes
ApplyPatch(req) ==
  /\ req \in inflight /\ req.stage = "sent"
  /\ LET m == MemUpdateIssue(IssuesAtCall(memIssues, req.atArrival), req.id, req.body, clock)
         d == DbUpdateIssue(dbIssues, dbComments, req.id, req.body, clock)
     IN /\ memIssues' = m.issues
        /\ dbIssues' = d.issues
        /\ inflight' = (inflight \ {req})
                         \cup {[req EXCEPT !.stage = "applied",
                                           !.mem = PatchIssueResponse(m.result),
                                           !.db = PatchIssueResponse(d.result)]}
        /\ last' = [op |-> "patches",
                    applied |-> Append(Applied, [n |-> req.n, id |-> req.id, body |-> req.body,
                                                 together |-> Cardinality(inflight) > 1]),
                    answered |-> Answered]
  /\ UNCHANGED <<memComments, dbComments, clock, issueSeq, commentSeq>>

\* the awaited call has returned: the request is answered
AnswerPatch(req) ==
  /\ req \in inflight /\ req.stage = "applied"
  /\ inflight' = inflight \ {req}
  /\ last' = [op |-> "patches", applied |-> Applied,
              answered |-> Append(Answered, [n |-> req.n, id |-> req.id, body |-> req.body,
                                             mem |-> req.mem, db |-> req.db])]
  /\ UNCHANGED <<memIssues, memComments, dbIssues, dbComments, clock, issueSeq, commentSeq>>

\* the issues are created before the first of the requests arrives
NextRace ==
  \/ inflight = {} /\ Applied = <<>> /\ CreateIssue(Base("a@x"))
  \/ \E body \in RaceUpdates : SendPatch(RaceId, body)
  \/ \E req \in inflight : ApplyPatch(req)
  \/ \E req \in inflight : AnswerPatch(req)

SpecRace == Init /\ [][NextRace]_vars

(* ============================== claims ================================= *)
Defaulted == {"status", "priority", "assignedTo"}

\* C1: a createIssue call whose input omits status, priority and assignedTo
\* stores and returns an issue with status open, priority medium and
\* assignedTo null, in MemStorage and in DatabaseStorage.
C1_CreateDefaults ==
  (last.op = "createIssue" /\ DOMAIN last.arg \cap Defaulted = {}) =>
    /\ last.mem.kind = "ok" /\ last.db.kind = "ok"
    /\ \A r \in {last.mem.value, last.db.value} :
         r.status = "open" /\ r.priority = "medium" /\ r.assignedTo = Null
    /\ MemGetIssue(memIssues, last.id) = last.mem
    /\ DbGetIssue(dbIssues, last.id) = last.db

C1_Witness ==
  /\ last.op = "createIssue" /\ DOMAIN last.arg \cap Defaulted = {}
  /\ last.id = 2
  /\ memIssues[1].status = "resolved" /\ dbIssues[1].priority = "urgent"

\* C2: an issue created by POST /api/issues has status open right after its
\* creation, whatever status the request body carries.
C2_PostForcesOpen ==
  last.op = "postIssue" =>
    /\ last.mem.code = 201 => last.mem.body.status = "open"
    /\ last.db.code = 201 => last.db.body.status = "open"

\* C3: every stored issue has its status among open, in-progress, resolved
\* and its priority among low, medium, high, urgent.
C3_EnumsHold ==
  /\ \A k \in DOMAIN memIssues :
       memIssues[k].status \in Statuses /\ memIssues[k].priority \in Priorities
  /\ \A k \in DOMAIN dbIssues :
       dbIssues[k].status \in Statuses /\ dbIssues[k].priority \in Priorities

\* C4: every stored issue has updatedAt >= createdAt, whatever fields the
\* updates name.
C4_UpdatedNotBeforeCreated ==
  /\ \A k \in DOMAIN memIssues : memIssues[k].updatedAt >= memIssues[k].createdAt
  /\ \A k \in DOMAIN dbIssues : dbIssues[k].updatedAt >= dbIssues[k].createdAt

\* C5: a successful updateIssue sets updatedAt to the clock's value, so that
\* updatedAt never decreases from one update to the next and increases when
\* the clock has advanced since the issue was last written.
C5_UpdatedAtIsNow ==
  [][ (last'.op = "updateIssue" /\ last'.mem.kind = "ok" /\ last'.db.kind = "ok") =>
        /\ last'.mem.value.updatedAt = clock /\ last'.db.value.updatedAt = clock
        /\ memIssues'[last'.id].updatedAt = clock /\ dbIssues'[last'.id].updatedAt = clock
        /\ memIssues'[last'.id].updatedAt >= memIssues[last'.id].updatedAt
        /\ dbIssues'[last'.id].updatedAt >= dbIssues[last'.id].updatedAt
        /\ memIssues[last'.id].updatedAt < clock =>
             memIssues'[last'.id].updatedAt > memIssues[last'.id].updatedAt
        /\ dbIssues[last'.id].updatedAt < clock =>
             dbIssues'[last'.id].updatedAt > dbIssues[last'.id].updatedAt ]_vars

C5_Witness ==
  /\ last.op = "updateIssue" /\ last.mem.kind = "ok" /\ last.db.kind = "ok"
  /\ "updatedAt" \in DOMAIN last.arg
  /\ memIssues[last.id].updatedAt > last.arg.updatedAt
  /\ memIssues[last.id].updatedAt = MaxClock /\ dbIssues[last.id].updatedAt = MaxClock

\* C10: getAllIssues() returns every stored issue exactly once, each issue's
\* createdAt being >= that of the issue after it.
NewestFirstOnce(result, issues) ==
  /\ Len(result) = Cardinality(DOMAIN issues)
  /\ \A k \in DOMAIN issues : Cardinality({i \in 1..Len(result) : result[i] = issues[k]}) = 1
  /\ \A i \in 1..(Len(result) - 1) : result[i].createdAt >= result[i + 1].createdAt

C10_AllIssuesNewestFirst ==
  /\ NewestFirstOnce(MemGetAllIssues(memIssues), memIssues)
  /\ DbGetAllIssues(dbIssues) # {}
  /\ \A result \in DbGetAllIssues(dbIssues) : NewestFirstOnce(result, dbIssues)

C10_Witness ==
  /\ DOMAIN memIssues = {1, 2} /\ DOMAIN dbIssues = {1, 2}
  /\ memIssues[1].createdAt < memIssues[2].createdAt
  /\ dbIssues[1].createdAt < dbIssues[2].createdAt
  /\ MemGetAllIssues(memIssues)[1].id = 2

\* what one realization shows of a partial update: the stored record carries
\* the supplied fields, keeps the omitted ones except updatedAt, is what the
\* call returned, and nothing else in the store has changed
MergedOnto(before, after, id, updates, returned) ==
  /\ DOMAIN after = DOMAIN before
  /\ returned = after[id]
  /\ \A f \in DOMAIN updates : after[id][f] = updates[f]
  /\ \A f \in (DOMAIN before[id]) \ (DOMAIN updates \cup {"updatedAt"}) :
       after[id][f] = before[id][f]
  /\ \A k \in (DOMAIN before) \ {id} : after[k] = before[k]

\* C6: updateIssue(id, partialFields) on an existing issue, with the fields
\* of an InsertIssue, returns and stores a record that has each supplied
\* field's value and every other field but updatedAt as before; no other
\* issue and no comment changes.
C6_PartialUpdate ==
  [][ (last'.op = "patchIssue" /\ DOMAIN last'.body \subseteq InsertIssueKeys) =>
        /\ last'.id \in DOMAIN memIssues =>
             /\ last'.mem.code = 200
             /\ MergedOnto(memIssues, memIssues', last'.id, last'.body, last'.mem.body)
             /\ memComments' = memComments
        /\ last'.id \in DOMAIN dbIssues =>
             /\ last'.db.code = 200
             /\ MergedOnto(dbIssues, dbIssues', last'.id, last'.body, last'.db.body)
             /\ dbComments' = dbComments ]_vars

C6_Witness ==
  /\ last.op = "patchIssue" /\ DOMAIN last.body \subseteq InsertIssueKeys
  /\ last.mem.code = 200 /\ last.db.code = 200
  /\ memIssues[last.id].status = "closed" /\ memIssues[last.id].assignedTo = "alice"
  /\ DOMAIN memIssues = {1, 2} /\ DOMAIN dbIssues = {1, 2}
  /\ memComments # <<>> /\ dbComments # <<>>

\* C7: PATCH /api/issues/:id for an id that names no stored issue is
\* answered 404 and changes no issue and no comment.
C7_PatchUnknown ==
  [][ last'.op = "patchIssue" =>
        /\ last'.id \notin DOMAIN memIssues =>
             last'.mem = NotFound /\ memIssues' = memIssues /\ memComments' = memComments
        /\ last'.id \notin DOMAIN dbIssues =>
             last'.db = NotFound /\ dbIssues' = dbIssues /\ dbComments' = dbComments ]_vars

C7_Witness ==
  /\ last.op = "patchIssue"
  /\ last.id \notin DOMAIN memIssues /\ last.id \notin DOMAIN dbIssues
  /\ last.mem.code = 404 /\ last.db.code = 404
  /\ memIssues # <<>> /\ dbComments # <<>>

\* C8: POST /api/issues/:id/comments for an id that names no stored issue is
\* answered 404 and stores no comment.
C8_CommentUnknown ==
  [][ /\ last'.op = "postCommentBegin" =>
           /\ last'.id \notin DOMAIN memIssues => last'.mem = NotFound
           /\ last'.id \notin DOMAIN dbIssues => last'.db = NotFound
      /\ last'.op \in {"postCommentBegin", "postComment"} =>
           /\ last'.mem = NotFound => memComments' = memComments
           /\ last'.db = NotFound => dbComments' = dbComments ]_vars

C8_Witness ==
  /\ last.op = "postCommentBegin"
  /\ last.id \notin DOMAIN memIssues /\ last.id \notin DOMAIN dbIssues
  /\ last.mem.code = 404 /\ last.db.code = 404
  /\ "content" \in DOMAIN last.body
  /\ memIssues # <<>>

OnceEach(result, S) ==
  /\ Len(result) = Cardinality(S)
  /\ {result[i] : i \in 1..Len(result)} = S

OldestFirstOnce(result, comments, x) ==
  /\ OnceEach(result, {comments[k] : k \in {c \in DOMAIN comments : comments[c].issueId = x}})
  /\ \A i \in 1..(Len(result) - 1) : result[i].createdAt <= result[i + 1].createdAt

\* C11: getCommentsByIssueId(x) returns the stored comments whose issueId is
\* x, each once and no other, each comment's createdAt being <= that of the
\* comment after it.
C11_CommentsOldestFirst ==
  \A x \in RequestIds \cup {ForeignId} :
    /\ OldestFirstOnce(MemGetCommentsByIssueId(memComments, x), memComments, x)
    /\ DbGetCommentsByIssueId(dbComments, x) # {}
    /\ \A result \in DbGetCommentsByIssueId(dbComments, x) :
         OldestFirstOnce(result, dbComments, x)

\* two comments of one issue written at different times, and a comment of
\* another issue
C11_Witness ==
  /\ \E a, b, c \in DOMAIN memComments :
       /\ memComments[a].issueId = memComments[b].issueId
       /\ memComments[a].createdAt < memComments[b].createdAt
       /\ memComments[c].issueId # memComments[a].issueId
  /\ dbComments = memComments

NewestFirstOf(result, S) ==
  /\ OnceEach(result, S)
  /\ \A i \in 1..(Len(result) - 1) : result[i].createdAt >= result[i + 1].createdAt

\* C12: getIssuesByCustomerEmail(e) returns the stored issues whose
\* customerEmail is the very string e (an address differing in case is
\* another address), each once and no other, newest first.
C12_IssuesOfCustomer ==
  \A e \in Emails :
    /\ NewestFirstOf(MemGetIssuesByCustomerEmail(memIssues, e),
                     {memIssues[k] : k \in {x \in DOMAIN memIssues : memIssues[x].customerEmail = e}})
    /\ DbGetIssuesByCustomerEmail(dbIssues, e) # {}
    /\ \A result \in DbGetIssuesByCustomerEmail(dbIssues, e) :
         NewestFirstOf(result,
                       {dbIssues[k] : k \in {x \in DOMAIN dbIssues : dbIssues[x].customerEmail = e}})

\* an issue of a@x and a later one of A@x: each list holds one of them
C12_Witness ==
  /\ DOMAIN memIssues = {1, 2} /\ dbIssues = memIssues
  /\ memIssues[1].customerEmail = "a@x" /\ memIssues[2].customerEmail = "A@x"
  /\ memIssues[1].createdAt < memIssues[2].createdAt
  /\ Len(MemGetIssuesByCustomerEmail(memIssues, "a@x")) = 1
  /\ Len(MemGetIssuesByCustomerEmail(memIssues, "A@x")) = 1

\* the calendar day a time falls on
DayOf(t) == t \div DayLength

\* the counters the claim names, over the issues stored at the time `now`
StatsOf(issues, now) ==
  [openIssues |-> Cardinality({k \in DOMAIN issues : issues[k].status = "open"}),
   inProgress |-> Cardinality({k \in DOMAIN issues : issues[k].status = "in-progress"}),
   resolvedToday |-> Cardinality({k \in DOMAIN issues : /\ issues[k].status = "resolved"
                                                        /\ DayOf(issues[k].updatedAt) = DayOf(now)}),
   urgent |-> Cardinality({k \in DOMAIN issues : issues[k].priority = "urgent"})]

\* C13: getIssueStats() counts the open issues, the in-progress issues, the
\* resolved issues whose updatedAt falls on the current calendar day, and
\* the urgent issues whatever their status.
C13_Stats ==
  /\ MemGetIssueStats(memIssues, clock) = StatsOf(memIssues, clock)
  /\ DbGetIssueStats(dbIssues, clock) = StatsOf(dbIssues, clock)

\* an urgent open issue, counted twice, beside an issue resolved on an
\* earlier day, counted nowhere
C13_Witness ==
  /\ DOMAIN memIssues = {1, 2} /\ dbIssues = memIssues
  /\ \E k \in DOMAIN memIssues : memIssues[k].status = "open" /\ memIssues[k].priority = "urgent"
  /\ \E k \in DOMAIN memIssues : /\ memIssues[k].status = "resolved"
                                 /\ DayOf(memIssues[k].updatedAt) < DayOf(clock)
  /\ MemGetIssueStats(memIssues, clock) =
       [openIssues |-> 1, inProgress |-> 0, resolvedToday |-> 0, urgent |-> 1]
  /\ DbGetIssueStats(dbIssues, clock) = MemGetIssueStats(memIssues, clock)

\* what createIssue is to store for an input: the submitted value of each
\* field, a default standing in for status, priority or assignedTo when
\* the field is omitted ("omitted") or omitted, null or empty ("falsy")
IssueDefault == [status |-> "open", priority |-> "medium", assignedTo |-> Null]

Expected(insertIssue, rule) ==
  [f \in InsertIssueKeys |->
     IF f \in Defaulted /\ (IF rule = "omitted" THEN f \notin DOMAIN insertIssue
                            ELSE Falsy(Get(insertIssue, f)))
     THEN IssueDefault[f] ELSE insertIssue[f]]

\* the submitted fields of what getIssue returned
Fields(result) == IF result.kind = "ok" THEN Pick(result.value, InsertIssueKeys) ELSE result

\* a step of createIssue is followed by a getIssue that shows the input
RoundTrip(rule) ==
  last'.op = "createIssue" =>
    /\ last'.mem.kind = "ok" /\ last'.db.kind = "ok"
    /\ Fields(MemGetIssue(memIssues', last'.mem.value.id)) = Expected(last'.arg, rule)
    /\ Fields(DbGetIssue(dbIssues', last'.db.value.id)) = Expected(last'.arg, rule)

\* a step that is no updateIssue on an issue's id leaves what getIssue
\* shows of it as it was
StaysUntilUpdate ==
  \A id \in RequestIds :
    ~(last'.op = "updateIssue" /\ last'.id = id) =>
      /\ MemGetIssue(memIssues, id).kind = "ok" =>
           Fields(MemGetIssue(memIssues', id)) = Fields(MemGetIssue(memIssues, id))
      /\ DbGetIssue(dbIssues, id).kind = "ok" =>
           Fields(DbGetIssue(dbIssues', id)) = Fields(DbGetIssue(dbIssues, id))

\* C14 as stated: getIssue after createIssue shows the submitted values,
\* defaults standing in for the omitted ones only, until an updateIssue on
\* that id.
C14_RoundTripAsSubmitted == [][RoundTrip("omitted") /\ StaysUntilUpdate]_vars

\* C14: getIssue with the id createIssue returned shows title, description,
\* customerName, customerEmail, priority, status and assignedTo as
\* submitted, a default standing in for a status, priority or assignedTo
\* that is omitted, null or the empty string, until an updateIssue on that
\* id.
C14_RoundTrip == [][RoundTrip("falsy") /\ StaysUntilUpdate]_vars

\* an issue created with an empty status and assignee, still shown as
\* created after another issue's update and a comment
C14_Witness ==
  /\ last.op = "createComment"
  /\ DOMAIN memIssues = {1, 2} /\ DOMAIN dbIssues = {1, 2}
  /\ memIssues[1].status = "open" /\ memIssues[1].priority = "high"
  /\ memIssues[1].assignedTo = Null
  /\ Fields(DbGetIssue(dbIssues, 1)) = Fields(MemGetIssue(memIssues, 1))
  /\ memIssues[2].status = "resolved" /\ dbIssues[2].status = "resolved"

\* a result without the generated identifiers and the timestamps
Shown(result) ==
  IF result.kind = "ok"
  THEN Ok(Pick(result.value, (DOMAIN result.value) \ NumberColumns))
  ELSE result

ShownList(list) == [i \in 1..Len(list) |-> Shown(Ok(list[i]))]

\* C15: MemStorage and DatabaseStorage return the same results, up to
\* generated identifiers and timestamps, for every call after the same
\* sequence of createIssue, updateIssue and createComment calls.
C15_SameResults ==
  /\ last.op \in {"createIssue", "updateIssue", "createComment"} =>
       Shown(last.mem) = Shown(last.db)
  /\ \A id \in RequestIds \cup {ForeignId} :
       /\ Shown(MemGetIssue(memIssues, id)) = Shown(DbGetIssue(dbIssues, id))
       /\ ShownList(MemGetCommentsByIssueId(memComments, id)) \in
            {ShownList(result) : result \in DbGetCommentsByIssueId(dbComments, id)}
  /\ ShownList(MemGetAllIssues(memIssues)) \in
       {ShownList(result) : result \in DbGetAllIssues(dbIssues)}
  /\ \A e \in Emails :
       ShownList(MemGetIssuesByCustomerEmail(memIssues, e)) \in
         {ShownList(result) : result \in DbGetIssuesByCustomerEmail(dbIssues, e)}
  /\ MemGetIssueStats(memIssues, clock) = DbGetIssueStats(dbIssues, clock)

\* C16: a request whose data-access call fails is answered 500; a POST
\* whose body passes validation is therefore never answered 400.
C16_StoreErrorIs500 ==
  /\ (last.op = "postIssue" /\ ValidInsertIssue(last.body)) =>
       last.mem.code # 400 /\ last.db.code # 400
  /\ (last.op = "postComment" /\ ValidInsertComment(CommentData(last.id, last.body))) =>
       last.mem.code # 400 /\ last.db.code # 400
  /\ last.op = "patchIssue" => last.mem.code # 400 /\ last.db.code # 400

\* a required field of the body is missing or is no string
Lacks(body, required) ==
  \E f \in required : f \notin DOMAIN body \/ (f \notin NumberColumns /\ body[f] = Null)

StoreUnchanged ==
  UNCHANGED <<memIssues, memComments, dbIssues, dbComments>>

\* C17: a POST /api/issues, or a POST /api/issues/:id/comments for an issue
\* the lookup found, whose body lacks a required field or carries one that
\* is no string is answered 400 and leaves the stores as they were.
C17_InvalidIs400 ==
  [][ /\ (last'.op = "postIssue" /\ Lacks(last'.body, InsertIssueRequired)) =>
           last'.mem = BadRequest /\ last'.db = BadRequest /\ StoreUnchanged
      /\ (last'.op = "postComment" /\ Lacks(last'.body, InsertCommentRequired \ {"issueId"})) =>
           /\ last'.mem # NotFound => last'.mem = BadRequest
           /\ last'.db # NotFound => last'.db = BadRequest
           /\ StoreUnchanged ]_vars

\* a comment request without content refused for a stored issue
C17_Witness ==
  /\ last.op = "postComment" /\ "content" \notin DOMAIN last.body
  /\ last.mem = BadRequest /\ last.db = BadRequest
  /\ DOMAIN memIssues = {1} /\ DOMAIN dbIssues = {1}
  /\ memComments = <<>> /\ dbComments = <<>>

\* the identifiers of the stored issues, the stored comment records
IssueIds(issues) == {issues[k].id : k \in DOMAIN issues}
CommentRecords(comments) == {comments[k] : k \in DOMAIN comments}

\* C18: along every execution the set of the stored issues' ids and the
\* set of the stored comment records only grow.
C18_OnlyGrow ==
  [][ /\ IssueIds(memIssues) \subseteq IssueIds(memIssues')
      /\ IssueIds(dbIssues) \subseteq IssueIds(dbIssues')
      /\ CommentRecords(memComments) \subseteq CommentRecords(memComments')
      /\ CommentRecords(dbComments) \subseteq CommentRecords(dbComments') ]_vars

\* what is stored of a comment beside its generated id and createdAt
Submitted(comment) == Pick(comment, {"issueId", "author", "content", "isInternal"})

\* C19 as stated: two comments the panel stored for one issue with the same
\* text have equal fields, whatever the checkbox's states were.
C19_CheckboxNoEffect ==
  /\ \A a, b \in DOMAIN memComments :
       (memComments[a].issueId = memComments[b].issueId
        /\ memComments[a].content = memComments[b].content) =>
         Submitted(memComments[a]) = Submitted(memComments[b])
  /\ \A a, b \in DOMAIN dbComments :
       (dbComments[a].issueId = dbComments[b].issueId
        /\ dbComments[a].content = dbComments[b].content) =>
         Submitted(dbComments[a]) = Submitted(dbComments[b])

\* C19: a comment submitted from the detail panel is stored with the
\* panel's issue, the author "Team Member", the text typed, and isInternal
\* "false" when the "notify customer" box is checked, "true" when it is
\* not; the box bears on no other field.
C19_CheckboxSetsIsInternal ==
  last.op = "addComment" =>
    /\ last.mem.code = 201 /\ last.db.code = 201
    /\ memComments[last.mem.body.id] = last.mem.body
    /\ dbComments[last.db.body.id] = last.db.body
    /\ \A stored \in {last.mem.body, last.db.body} :
         Submitted(stored) =
           [issueId |-> last.id, author |-> "Team Member", content |-> last.newComment,
            isInternal |-> IF last.notifyCustomer THEN "false" ELSE "true"]

\* the same text submitted for one issue with the box checked and, later,
\* unchecked
C19_Witness ==
  /\ last.op = "addComment" /\ ~last.notifyCustomer
  /\ \E a, b \in DOMAIN memComments :
       /\ memComments[a].issueId = memComments[b].issueId
       /\ memComments[a].content = memComments[b].content
       /\ memComments[a].isInternal = "false" /\ memComments[b].isInternal = "true"
       /\ dbComments[a] = memComments[a] /\ dbComments[b] = memComments[b]

NoInternal(response) ==
  response.code = 200 =>
    \A i \in 1..Len(response.body.comments) : response.body.comments[i].isInternal # "true"

\* C20: no answer to GET /api/issues/:id carries a comment whose isInternal
\* is "true"; the answers to GET /api/issues/customer/:email and to
\* POST /api/issues carry no comment at all.
C20_NoInternalToCustomer ==
  /\ \A id \in RequestIds :
       /\ NoInternal(GetIssueResponse(MemGetIssue(memIssues, id),
                                      Ok(MemGetCommentsByIssueId(memComments, id))))
       /\ \A comments \in DbGetCommentsByIssueId(dbComments, id) :
            NoInternal(GetIssueResponse(DbGetIssue(dbIssues, id), Ok(comments)))
  /\ \A e \in Emails :
       LET response == GetCustomerIssuesResponse(Ok(MemGetIssuesByCustomerEmail(memIssues, e)))
       IN \A i \in 1..Len(response.body) : "comments" \notin DOMAIN response.body[i]
  /\ last.op = "postIssue" =>
       /\ last.mem.code = 201 => "comments" \notin DOMAIN last.mem.body
       /\ last.db.code = 201 => "comments" \notin DOMAIN last.db.body

\* the issue matches the search text and the two filters, "all" or an empty
\* filter letting every issue pass
Matches(issue, searchTerm, statusFilter, priorityFilter) ==
  /\ \E f \in {"title", "description", "customerName", "customerEmail"} :
       Includes(ToLowerCase(Chars[issue[f]]), ToLowerCase(Chars[searchTerm]))
  /\ statusFilter \in {"", "all", issue.status}
  /\ priorityFilter \in {"", "all", issue.priority}

\* the table holds the fetched issues of the set S, in the order fetched
ShowsExactly(table, issues, S) ==
  /\ table = SelectSeq(issues, LAMBDA issue : issue \in S)
  /\ Len(table) = Cardinality(S)

C28_UnassignedClears ==
  (last.op = "changeAssignee" /\ last.assignedTo = "unassigned") =>
    /\ memIssues[last.id].assignedTo = Null
    /\ dbIssues[last.id].assignedTo = Null

\* the two realisations' lists of data-access calls for the request answered
CallLists == {last.memCalls, last.dbCalls}

\* C22: every request makes exactly one data-access call, except POST
\* /api/issues/:id/comments, which makes at most two (getIssue, then
\* createComment).
C22_OneCallPerRequest ==
  last.op = "respond" =>
    \A calls \in CallLists :
      IF last.endpoint = "POST /api/issues/:id/comments"
      THEN calls \in {<<>>, <<"getIssue">>, <<"getIssue", "createComment">>}
      ELSE Len(calls) = 1

\* C22: a request makes at most one data-access call, except GET
\* /api/issues/:id (getIssue, then getCommentsByIssueId when the issue was
\* found) and POST /api/issues/:id/comments (getIssue, then createComment);
\* POST /api/issues makes none when its body fails validation; every other
\* request makes exactly one.
C22_CallsPerRequest ==
  last.op = "respond" =>
    LET id == last.request.id
        memFound == id \in IssueIds(memIssues)
        dbFound == last.failing # 1 /\ id \in IssueIds(dbIssues)
        lookup(found) == IF found THEN <<"getIssue", "getCommentsByIssueId">>
                         ELSE <<"getIssue">>
    IN CASE last.endpoint = "GET /api/issues/:id" ->
              last.memCalls = lookup(memFound) /\ last.dbCalls = lookup(dbFound)
         [] last.endpoint = "POST /api/issues/:id/comments" ->
              \A calls \in CallLists :
                calls \in {<<"getIssue">>, <<"getIssue", "createComment">>}
         [] last.endpoint = "POST /api/issues" ->
              \A calls \in CallLists :
                calls = IF Lacks(last.request.body, InsertIssueRequired) THEN <<>>
                        ELSE <<"createIssue">>
         [] OTHER -> \A calls \in CallLists : Len(calls) = 1

\* GET /api/issues/:id of a stored issue answered 200 after two calls, in
\* both realisations
C22_Witness ==
  /\ last.op = "respond" /\ last.endpoint = "GET /api/issues/:id"
  /\ last.mem.code = 200 /\ last.db.code = 200
  /\ CallLists = {<<"getIssue", "getCommentsByIssueId">>}

ListedStatus(endpoint) ==
  CASE endpoint \in {"GET /api/issues", "GET /api/issues/customer/:email",
                     "GET /api/stats"} -> {200, 500}
    [] endpoint = "GET /api/issues/:id" -> {200, 404, 500}
    [] endpoint = "POST /api/issues" -> {201, 400, 500}
    [] endpoint = "PATCH /api/issues/:id" -> {200, 404, 500}
    [] endpoint = "POST /api/issues/:id/comments" -> {201, 404, 400, 500}

\* C30: every request received is eventually answered, whether its
\* data-access calls return or throw; an answer goes to the one request in
\* flight, which is then no longer in flight, and its status is one of
\* those listed for the endpoint.
C30_AnsweredOnce ==
  /\ \A req \in Requests :
       (req \in inflight) ~>
          (req \notin inflight /\ last.op = "respond" /\ last.request = req)
  /\ [][inflight' # inflight =>
          \/ inflight = {} /\ Cardinality(inflight') = 1
          \/ /\ inflight' = {} /\ inflight = {last'.request}
             /\ last'.op = "respond"
             /\ last'.mem.code \in ListedStatus(last'.endpoint)
             /\ last'.db.code \in ListedStatus(last'.endpoint)]_vars

\* GET /api/stats answered 500 where the database call threw
C30_Witness ==
  /\ last.op = "respond" /\ last.endpoint = "GET /api/stats"
  /\ last.failing = 1 /\ last.mem.code = 200 /\ last.db.code = 500
  /\ inflight = {}

\* C25: no PATCH changes the id or the createdAt of a stored issue, and
\* every record r that getAllIssues returns satisfies getIssue(r.id) = r.
C25_IdAndCreatedAtFixed ==
  /\ [][ last'.op = "patchIssue" =>
           /\ \A k \in DOMAIN memIssues :
                /\ memIssues'[k].id = memIssues[k].id
                /\ memIssues'[k].createdAt = memIssues[k].createdAt
           /\ \A k \in DOMAIN dbIssues :
                /\ k \in DOMAIN dbIssues'
                /\ dbIssues'[k].id = dbIssues[k].id
                /\ dbIssues'[k].createdAt = dbIssues[k].createdAt ]_vars
  /\ [](\A i \in DOMAIN MemGetAllIssues(memIssues) :
          LET r == MemGetAllIssues(memIssues)[i]
          IN MemGetIssue(memIssues, r.id) = Ok(r))

\* C26: a comment created by POST /api/issues/:id/comments is stored with
\* the issueId of the request path whatever issueId the body carries, and
\* with isInternal "false" when the body has no isInternal.
C26_StoredComment ==
  (last.op = "respond" /\ last.endpoint = "POST /api/issues/:id/comments") =>
    LET stored(comment) ==
          /\ comment.id = commentSeq
          /\ comment.issueId = last.request.id
          /\ "isInternal" \notin DOMAIN last.request.body => comment.isInternal = "false"
    IN /\ last.mem.code = 201 => stored(memComments[last.mem.body.id])
       /\ last.db.code = 201 => stored(dbComments[last.db.body.id])

\* a body that names another issue and has no isInternal: 201 in both
\* realisations
C26_Witness ==
  /\ last.op = "respond" /\ last.endpoint = "POST /api/issues/:id/comments"
  /\ last.mem.code = 201 /\ last.db.code = 201
  /\ "isInternal" \notin DOMAIN last.request.body
  /\ last.request.body.issueId # last.request.id
  /\ memComments[commentSeq].issueId = last.request.id
  /\ dbComments[commentSeq].isInternal = "false"

\* the stored issues but the one under key k
Without(issues, k) == [j \in DOMAIN issues \ {k} |-> issues[j]]

\* the issue under key k is one of those resolvedToday counts
MemCountedToday(issues, k, now) ==
  MemGetIssueStats(issues, now).resolvedToday
    = MemGetIssueStats(Without(issues, k), now).resolvedToday + 1

DbCountedToday(rows, k, now) ==
  DbGetIssueStats(rows, now).resolvedToday
    = DbGetIssueStats(Without(rows, k), now).resolvedToday + 1

\* C29: an update that leaves an issue resolved puts it among those
\* resolvedToday counts, whenever it was resolved; an issue last updated
\* on an earlier day is not counted; and openIssues + inProgress +
\* resolvedToday never exceeds the number of stored issues.
C29_ResolvedToday ==
  /\ [][ (last'.op = "updateIssue" /\ last'.id \in DOMAIN memIssues
          /\ memIssues'[last'.id].status = "resolved") =>
           /\ MemCountedToday(memIssues', last'.id, clock')
           /\ DbCountedToday(dbIssues', last'.id, clock') ]_vars
  /\ [](\A k \in DOMAIN memIssues :
          /\ DayOf(memIssues[k].updatedAt) < DayOf(clock) =>
               ~MemCountedToday(memIssues, k, clock)
          /\ DayOf(dbIssues[k].updatedAt) < DayOf(clock) =>
               ~DbCountedToday(dbIssues, k, clock))
  /\ [](\A stats \in {MemGetIssueStats(memIssues, clock), DbGetIssueStats(dbIssues, clock)} :
          stats.openIssues + stats.inProgress + stats.resolvedToday
            <= Cardinality(DOMAIN memIssues))

\* an issue created resolved on the first day, given an assignee on the
\* second: counted again, beside a resolved issue of the first day that is
\* not
C29_Witness ==
  /\ last.op = "updateIssue" /\ "status" \notin DOMAIN last.arg
  /\ last.id \in DOMAIN memIssues /\ memIssues[last.id].status = "resolved"
  /\ DayOf(memIssues[last.id].createdAt) < DayOf(clock)
  /\ \E k \in DOMAIN memIssues :
       memIssues[k].status = "resolved" /\ DayOf(memIssues[k].updatedAt) < DayOf(clock)
  /\ MemGetIssueStats(memIssues, clock).resolvedToday = 1
  /\ DbGetIssueStats(dbIssues, clock).resolvedToday = 1

\* the place in the order of application of the last call that supplied
\* field f
LastSupplying(f) ==
  CHOOSE j \in DOMAIN Applied :
    /\ f \in DOMAIN Applied[j].body
    /\ \A k \in DOMAIN Applied : f \in DOMAIN Applied[k].body => k <= j

\* C23: of the updateIssue calls on one stored issue that supplied a field,
\* the value stored is the one of the call applied last; every call is
\* answered with success and with the record carrying its own values,
\* nothing in it telling of another call.
C23_LastWriterWins ==
  RaceId \in DOMAIN memIssues =>
    /\ \A i \in DOMAIN Applied : \A f \in DOMAIN Applied[i].body :
         /\ memIssues[RaceId][f] = Applied[LastSupplying(f)].body[f]
         /\ dbIssues[RaceId][f] = Applied[LastSupplying(f)].body[f]
    /\ \A req \in {r \in inflight : r.stage = "applied"}
                  \cup {Answered[i] : i \in DOMAIN Answered} :
         /\ req.mem.code = 200 /\ req.db.code = 200
         /\ DOMAIN req.mem.body = IssueColumns /\ DOMAIN req.db.body = IssueColumns
         /\ \A f \in DOMAIN req.body :
              req.mem.body[f] = req.body[f] /\ req.db.body[f] = req.body[f]

\* two calls with a status on their way together, applied in the reverse
\* of the order of arrival and both answered 200: the status stored is the
\* one of the call that arrived first
C23_Witness ==
  /\ inflight = {} /\ Len(Applied) = 2 /\ Len(Answered) = 2
  /\ Applied[1].together /\ Applied[2].together
  /\ Applied[1].n = 2 /\ Applied[2].n = 1
  /\ Applied[1].body = [status |-> "in-progress"]
  /\ Applied[2].body = [status |-> "resolved"]
  /\ RaceId \in DOMAIN memIssues /\ memIssues[RaceId].status = "resolved"
  /\ Answered[1].mem.code = 200 /\ Answered[2].mem.code = 200

\* C24: when two PATCH requests on one stored issue, on their way
\* together, supply disjoint sets of fields that no other request supplies,
\* the stored record carries the values of both, whichever was applied
\* first.
C24_NoLostUpdate ==
  RaceId \in DOMAIN memIssues =>
    \A i, j \in DOMAIN Applied :
      (/\ i # j /\ Applied[i].together /\ Applied[j].together
       /\ DOMAIN Applied[i].body \cap DOMAIN Applied[j].body = {}
       /\ \A k \in DOMAIN Applied \ {i, j} :
            DOMAIN Applied[k].body \cap (DOMAIN Applied[i].body \cup DOMAIN Applied[j].body) = {})
      => \A f \in DOMAIN Applied[i].body :
           /\ memIssues[RaceId][f] = Applied[i].body[f]
           /\ dbIssues[RaceId][f] = Applied[i].body[f]

\* a priority and a status sent together, the one that arrived second
\* applied first: the record carries both
C24_Witness ==
  /\ Len(Applied) = 2 /\ Applied[1].together /\ Applied[2].together
  /\ Applied[1].n = 2 /\ Applied[2].n = 1
  /\ Applied[1].body = [priority |-> "high"]
  /\ Applied[2].body = [status |-> "resolved"]
  /\ RaceId \in DOMAIN memIssues
  /\ memIssues[RaceId].priority = "high" /\ memIssues[RaceId].status = "resolved"

====
